---- MODULE Spec2Model ----
(***************************************************************************)
(* Video assembly pipeline of YoutubeAutomate:                             *)
(*   run_automation.py    _step_create_video, _extract_section_durations   *)
(*   background_music_mixer.py   BackgroundMusicMixer.mix_audio_with_music *)
(*   kids_video_creator.py       KidsVideoCreator.create_video,            *)
(*                               _build_image_filter, _run_ffmpeg          *)
(* Durations are integers in milliseconds.                                 *)
(***************************************************************************)
EXTENDS Integers, Sequences, FiniteSets, TLC

\* ------------------------------------------------------------------ bounds
MaxImages == 4      \* longest image list explored
MaxBody == 2        \* most body sections in a script
MaxCeiling == 3     \* largest max_retries handed to _run_ffmpeg on its own

\* ------------------------------------------------------- program constants
DefaultMaxRetries == 3        \* _run_ffmpeg(cmd, max_retries=3)
FADE_DURATION == 800          \* 0.8 s
OUTPUT_FPS == 60
DefaultAudioDuration == 180000   \* 180.0 s returned when the probe fails
MinVoiceover == 10000            \* "Voiceover must be at least 10 seconds long"
NumTransitions == 9              \* len(transitions)

\* ---------------------------------------------------------------- helpers
RECURSIVE SumSeq(_)
SumSeq(s) == IF s = <<>> THEN 0 ELSE Head(s) + SumSeq(Tail(s))

RECURSIVE Pow2(_)
Pow2(n) == IF n = 0 THEN 1 ELSE 2 * Pow2(n - 1)

Abs(x) == IF x < 0 THEN -x ELSE x

\* A Python value that is either None or a list of numbers.
None == [none |-> TRUE, list |-> <<>>]
Some(l) == [none |-> FALSE, list |-> l]

\* ------------------------------------------------------------------ state
VARIABLES
    caller,            \* "step": _step_create_video; "direct": create_youtube_video;
                       \* "ffmpeg": _run_ffmpeg exercised on its own
    use_videos,        \* orchestrator flag, with session_data['videos'] non-empty
    script,            \* session_data['script']
    images,            \* session_data['images'] / images argument: <<1, .., n>>
    missingImage,      \* 0, or the index of the one image file that does not exist
    background_music,  \* "none", "present" or "missing" (create_video argument)
    musicExists,       \* the category's music track file exists
    narration_duration,\* true duration of the narration file
    fs,                \* file contents: voiceover, mixed, video
    stepPc, voiceover_to_use, image_durations, stepResult, stepError,
    section_images,    \* images given to each section by the allocator's last call
    createVideoCalls,  \* times the step has called creator.create_video
    mixProbeCalls, mixEncoderCalls, mixOutcome,
    mixFailure,        \* what failed while mixing: "none", "probe", "encoder", "mixer"
    cvPc, cvVoiceover, audio_duration, duration_per_image, cmd, cvError,
    probeOutcome,      \* _get_audio_duration: "none" (not called), "ok", "failed"
    ffPc, max_retries, attempt, runs, sleeps, ffError,
    args,              \* per invocation: the flags main() parsed
    runPc,             \* per invocation: "idle", "cleanup", "stages", "returned", "exited"
    runStage,          \* per invocation: number of the stage run() is about to call
    executed,          \* per invocation: the stages called so far, with their results
    runResult,         \* per invocation: what run() returned
    exitCode,          \* per invocation: argument of sys.exit, -1 while running
    disk,              \* files under output/audio, output/images, output/videos/clips
                       \* and output/ (gTTS narration), each with its writer
    videos,            \* output/videos/*.mp4, newest first
    pending,           \* per invocation: files it produced and has not consumed yet
    clobbered,         \* files deleted or overwritten by another invocation while pending
    filter_complex,    \* fragments returned by _build_image_filter called on its own
    upPc,              \* _execute_resumable_upload: "idle", "uploading", "returned", "raised"
    chunksLeft,        \* calls of next_chunk that must still succeed
    retry,             \* its error counter
    upErrors,          \* errors of next_chunk seen during the upload
    upDelays,          \* the time.sleep delays taken, in seconds
    upError,           \* the exception that left it
    upLast             \* outcome of the last next_chunk call

runVars == <<args, runPc, runStage, executed, runResult, exitCode, disk, videos,
             pending, clobbered>>
uploadVars == <<upPc, chunksLeft, retry, upErrors, upDelays, upError, upLast>>
\* filter_complex and uploadVars belong to calls made on their own.
aloneVars == <<filter_complex, uploadVars>>
sessionVars == <<caller, use_videos, script, images, missingImage,
                 background_music, musicExists, narration_duration, runVars,
                 aloneVars>>
stepVars == <<stepPc, voiceover_to_use, image_durations, stepResult, stepError,
              section_images, createVideoCalls>>
mixVars == <<mixProbeCalls, mixEncoderCalls, mixOutcome, mixFailure>>
cvVars == <<cvPc, cvVoiceover, audio_duration, duration_per_image, cmd, cvError,
            probeOutcome>>
ffVars == <<ffPc, max_retries, attempt, runs, sleeps, ffError>>
vars == <<sessionVars, fs, stepVars, mixVars, cvVars, ffVars>>
\* What run() and main() themselves leave alone.
assemblyVars == <<caller, use_videos, script, images, missingImage, background_music,
                  musicExists, narration_duration, fs, stepVars, mixVars, cvVars,
                  ffVars, aloneVars>>

Paths == {"voiceover", "mixed", "video"}
NoCmd == [holds |-> <<>>, inputs |-> <<>>, filter |-> <<>>, maps |-> <<>>]
NoScript == [present |-> FALSE, intro |-> 0, body |-> <<>>, outro |-> 0]

\* Two invocations of run_automation.py as separate processes.
Procs == {"A", "B"}

\* Neither _build_image_filter nor the upload is called on its own.
IdleAlone ==
    /\ filter_complex = <<>>
    /\ upPc = "idle" /\ chunksLeft = 0 /\ retry = 0 /\ upErrors = 0
    /\ upDelays = <<>> /\ upError = "none"
    /\ upLast = [kind |-> "none", status |-> 0]

\* No invocation of run() is part of the behaviour.
IdleRun ==
    /\ args = [p \in Procs |-> [skip_upload |-> FALSE, use_videos |-> FALSE]]
    /\ runPc = [p \in Procs |-> "idle"]
    /\ runStage = [p \in Procs |-> 1]
    /\ executed = [p \in Procs |-> <<>>]
    /\ runResult = [p \in Procs |-> "none"]
    /\ exitCode = [p \in Procs |-> -1]
    /\ disk = {}
    /\ videos = <<>>
    /\ pending = [p \in Procs |-> {}]
    /\ clobbered = {}

\* ------------------------------------------------------------ _run_ffmpeg
\* What one subprocess.run of the encoder can do.
RunKinds == {"ok", "timeout", "transient", "nontransient", "notfound", "other"}

\* is_transient: the four patterns searched in the CalledProcessError's stderr.
IsTransient(kind) == kind = "transient"

\* "attempt < max_retries and is_transient"
RetryOffByOne(att, ceiling, transient) == att < ceiling - 1 /\ transient
ShouldRetry(att, ceiling, transient) == att < ceiling /\ transient

\* The try/except of one loop iteration: what follows a run of the given kind.
\*   "return": return; "raise": the exception leaves _run_ffmpeg;
\*   "sleep":  time.sleep(2 ** attempt), then the next iteration of the for loop.
AfterRunTimeoutRetried(kind, att, ceiling) ==
    CASE kind = "ok" -> "return"
      [] kind = "timeout" -> IF att < ceiling THEN "sleep" ELSE "raise"
      [] kind \in {"transient", "nontransient"} ->
            IF ShouldRetry(att, ceiling, IsTransient(kind)) THEN "sleep" ELSE "raise"
      [] kind = "notfound" -> "raise"
      [] OTHER -> IF att < ceiling THEN "sleep" ELSE "raise"
AfterRun(kind, att, ceiling) ==
    CASE kind = "ok" -> "return"
      [] kind = "timeout" -> "raise"
      [] kind \in {"transient", "nontransient"} ->
            IF ShouldRetry(att, ceiling, IsTransient(kind)) THEN "sleep" ELSE "raise"
      [] kind = "notfound" -> "raise"
      [] OTHER -> IF att < ceiling THEN "sleep" ELSE "raise"

\* The exception that leaves _run_ffmpeg for a run of the given kind.
RaisedError(kind) ==
    CASE kind = "timeout" -> "RuntimeError"
      [] kind \in {"transient", "nontransient"} -> "CalledProcessError"
      [] kind = "notfound" -> "RuntimeError"
      [] OTHER -> "Exception"

\* What the encoder may leave at the output path: a successful run normally
\* writes the video but may exit 0 with nothing or an empty file; a failed or
\* killed run may leave whatever was there or a partial file.
VideoAfter(kind, before) ==
    IF kind = "ok" THEN {"video", "empty", "absent"}
    ELSE IF kind = "notfound" THEN {before}
    ELSE {before, "partial"}

\* wait_time = 2 ** attempt, in seconds
BackoffConstant(att) == 2
Backoff(att) == Pow2(att)

\* One iteration of "for attempt in range(1, max_retries + 1)".
Attempt(kind) ==
    /\ ffPc = "running"
    /\ runs' = Append(runs, kind)
    /\ \E v \in VideoAfter(kind, fs["video"]) : fs' = [fs EXCEPT !["video"] = v]
    /\ LET next == AfterRun(kind, attempt, max_retries) IN
         CASE next = "return" ->
                /\ ffPc' = "returned"
                /\ UNCHANGED <<attempt, sleeps, ffError>>
           [] next = "sleep" /\ attempt + 1 <= max_retries ->
                /\ sleeps' = Append(sleeps, Backoff(attempt))
                /\ attempt' = attempt + 1
                /\ UNCHANGED <<ffPc, ffError>>
           [] next = "sleep" /\ attempt + 1 > max_retries ->
                \* the loop is exhausted: "if last_error: raise last_error"
                /\ sleeps' = Append(sleeps, Backoff(attempt))
                /\ ffPc' = "raised"
                /\ ffError' = RaisedError(kind)
                /\ UNCHANGED attempt
           [] OTHER ->
                /\ ffPc' = "raised"
                /\ ffError' = RaisedError(kind)
                /\ UNCHANGED <<attempt, sleeps>>
    /\ UNCHANGED <<sessionVars, stepVars, mixVars, cvVars, max_retries>>

RunSucceeds == Attempt("ok")
RunTimesOut == Attempt("timeout")
RunCalledProcessError == \E k \in {"transient", "nontransient"} : Attempt(k)
RunFileNotFound == Attempt("notfound")
RunOtherException == Attempt("other")

RunFfmpegNext ==
    \/ RunSucceeds
    \/ RunTimesOut
    \/ RunCalledProcessError
    \/ RunFileNotFound
    \/ RunOtherException

\* _run_ffmpeg called on its own with a command and a retry ceiling.
InitRunFfmpeg ==
    /\ caller = "ffmpeg"
    /\ use_videos = FALSE
    /\ script = NoScript
    /\ images = <<>>
    /\ missingImage = 0
    /\ background_music = "none"
    /\ musicExists = FALSE
    /\ narration_duration = 0
    /\ fs \in {[p \in Paths |-> IF p = "video" THEN v ELSE "absent"] :
                 v \in {"absent", "video"}}
    /\ stepPc = "idle" /\ voiceover_to_use = "unset" /\ image_durations = None
    /\ stepResult = "none" /\ stepError = "none" /\ createVideoCalls = 0
    /\ section_images = <<>>
    /\ mixProbeCalls = 0 /\ mixEncoderCalls = 0 /\ mixOutcome = "none"
    /\ mixFailure = "none"
    /\ cvPc = "idle" /\ cvVoiceover = "unset" /\ audio_duration = 0
    /\ duration_per_image = 0 /\ cmd = NoCmd /\ cvError = "none"
    /\ probeOutcome = "none"
    /\ ffPc = "running"
    /\ max_retries \in 1..MaxCeiling
    /\ attempt = 1
    /\ runs = <<>>
    /\ sleeps = <<>>
    /\ ffError = "none"
    /\ IdleRun
    /\ IdleAlone

SpecRunFfmpeg == InitRunFfmpeg /\ [][RunFfmpegNext]_vars

\* ------------------------------------------- _extract_section_durations
Max(a, b) == IF a > b THEN a ELSE b

SectionDurs == {12000, 30000}     \* duration_seconds of a script section
VariationsTooWide == {70, 100, 130}
Variations == {80, 100, 120}      \* random.uniform(0.8, 1.2), in percent

\* Python round(): half to even, of the rational num / den.
RoundHalfEven(num, den) ==
    LET q == num \div den
        r == num % den
    IN IF 2 * r < den THEN q
       ELSE IF 2 * r > den THEN q + 1
       ELSE IF q % 2 = 0 THEN q ELSE q + 1

NoDuration == -1       \* a section whose duration_seconds is None

\* The exception raised while section_durations is collected, "none" if none.
\* float(None) raises TypeError.  Line 980 reads section.outro.duration_seconds:
\* "section" is the last body section (no attribute outro) or unbound, so a
\* script with an outro raises.
CollectException(s) ==
    IF s.intro = NoDuration \/ \E i \in 1..Len(s.body) : s.body[i] = NoDuration
    THEN "TypeError"
    ELSE IF s.outro # 0
    THEN (IF s.body = <<>> THEN "UnboundLocalError" ELSE "AttributeError")
    ELSE "none"

ExtractRaises(s) == CollectException(s) # "none"

\* section_durations as collected before the outro is looked at.
SectionDurations(s) == (IF s.intro # 0 THEN <<s.intro>> ELSE <<>>) \o s.body

\* section_images for sections i, i+1, .. (i counts from 0).
RECURSIVE ImagesPerSection(_, _, _, _)
ImagesPerSection(i, assigned, ns, ni) ==
    IF i >= ns THEN <<>>
    ELSE LET c == IF i = ns - 1 THEN ni - assigned
                  ELSE Max(1, RoundHalfEven((i + 1) * ni, ns) - assigned)
         IN <<c>> \o ImagesPerSection(i + 1, assigned + c, ns, ni)

\* image_durations built by the two nested loops; var[k] is the k-th draw.
RECURSIVE SpreadDurations(_, _, _, _)
SpreadDurations(secs, counts, var, k) ==
    IF secs = <<>> THEN <<>>
    ELSE LET c == Head(counts)
             n == Max(c, 0)
         IN [j \in 1..n |-> ((Head(secs) \div c) * var[k + j]) \div 100]
            \o SpreadDurations(Tail(secs), Tail(counts), var, k + n)

\* section_images of every section, when the branch for more images than
\* sections is taken; <<>> otherwise.
SectionImagesWithoutAbsorption(s, imgs) ==
    LET ns == Len(SectionDurations(s))
        ni == Len(imgs)
    IN IF s.present /\ ~ExtractRaises(s) /\ ns >= 1 /\ ni > ns
       THEN [j \in 1..ns |-> ni \div ns]
       ELSE <<>>
SectionImages(s, imgs) ==
    LET ns == Len(SectionDurations(s))
        ni == Len(imgs)
    IN IF s.present /\ ~ExtractRaises(s) /\ ns >= 1 /\ ni > ns
       THEN ImagesPerSection(0, 0, ns, ni)
       ELSE <<>>

\* The exception raised inside the try block of _extract_section_durations.
ExtractException(s, imgs) ==
    IF ~s.present \/ imgs = <<>> THEN "none"
    ELSE IF ExtractRaises(s) THEN CollectException(s)
    ELSE IF Len(SectionDurations(s)) = 0 THEN "ZeroDivisionError"
    ELSE "none"

\* "except Exception as e: ... return None"
ExceptionClasses ==
    {"Exception", "TypeError", "AttributeError", "UnboundLocalError",
     "ZeroDivisionError", "ValueError", "RuntimeError"}
CaughtAttributeErrorOnly(exc) == exc = "AttributeError"
CaughtByExtract(exc) == exc \in ExceptionClasses

ExtractEscapes(s, imgs) ==
    /\ ExtractException(s, imgs) # "none"
    /\ ~CaughtByExtract(ExtractException(s, imgs))

\* Every value _extract_section_durations can return for a script and images.
ExtractResults(s, imgs) ==
    IF ~s.present \/ imgs = <<>> THEN {None}
    ELSE IF ExtractRaises(s) THEN {None}
    ELSE LET secs == SectionDurations(s)
             ns == Len(secs)
             ni == Len(imgs)
         IN IF ns = ni THEN {Some(secs)}
            ELSE IF ni > ns THEN
                 IF ns = 0 THEN {None}          \* ZeroDivisionError, caught
                 ELSE LET counts == SectionImages(s, imgs)
                      IN IF \E i \in 1..ns : counts[i] = 0 THEN {None}
                         ELSE {Some(SpreadDurations(secs, counts, var, 0)) :
                                 var \in [1..ni -> Variations]}
            ELSE {None}

\* ---------------------------------------------------- _build_image_filter
Transitions == <<"fade", "wipeleft", "wiperight", "slideleft", "slideright",
                 "smoothleft", "smoothright", "circleopen", "circleclose">>

Pad(name, idx) == [name |-> name, idx |-> idx]

TransitionType(i, n) ==
    IF i % 3 = 0 /\ i < n - 1 THEN Transitions[(i % NumTransitions) + 1] ELSE "fade"

\* frames_per_image = int(duration_per_image * OUTPUT_FPS)
FramesPerImageInSeconds(d) == d \div 1000
FramesPerImage(d) == (d * OUTPUT_FPS) \div 1000

\* fade_start = duration_per_image - FADE_DURATION
FadeStart(i, d) == d - FADE_DURATION

ProcessFragmentFirstInput(i, d) ==
    [op |-> "process", ins |-> <<Pad("in", 0)>>, out |-> Pad("v", i),
     zoomFrames |-> FramesPerImage(d), transition |-> "none",
     duration |-> 0, offset |-> 0]
ProcessFragment(i, d) ==
    [op |-> "process", ins |-> <<Pad("in", i)>>, out |-> Pad("v", i),
     zoomFrames |-> FramesPerImage(d), transition |-> "none",
     duration |-> 0, offset |-> 0]

XfadeFragmentUnchained(i, n, d) ==
    [op |-> "xfade",
     ins |-> <<Pad("v", i - 1), Pad("v", i)>>,
     out |-> IF i = n - 1 THEN Pad("outv", 0) ELSE Pad("vt", i),
     zoomFrames |-> 0, transition |-> TransitionType(i, n),
     duration |-> FADE_DURATION, offset |-> FadeStart(i, d)]
XfadeFragment(i, n, d) ==
    [op |-> "xfade",
     ins |-> <<IF i = 1 THEN Pad("v", 0) ELSE Pad("vt", i - 1), Pad("v", i)>>,
     out |-> IF i = n - 1 THEN Pad("outv", 0) ELSE Pad("vt", i),
     zoomFrames |-> 0, transition |-> TransitionType(i, n),
     duration |-> FADE_DURATION, offset |-> FadeStart(i, d)]

CopyFragment ==
    [op |-> "copy", ins |-> <<Pad("v", 0)>>, out |-> Pad("outv", 0),
     zoomFrames |-> 0, transition |-> "none", duration |-> 0, offset |-> 0]

\* The fragments joined by ";" for n images shown d milliseconds each.
BuildImageFilterWithoutCopy(n, d) ==
    [k \in 1..n |-> ProcessFragment(k - 1, d)]
    \o [i \in 1..(n - 1) |-> XfadeFragment(i, n, d)]
BuildImageFilter(n, d) ==
    [k \in 1..n |-> ProcessFragment(k - 1, d)]
    \o (IF n > 1 THEN [i \in 1..(n - 1) |-> XfadeFragment(i, n, d)]
        ELSE <<CopyFragment>>)

\* The xfade fragments of a graph, in junction order.
Xfades(filter) == SelectSeq(filter, LAMBDA f : f.op = "xfade")

\* ------------------------------------------- encoder command of create_video
AudioFilterOffByOne(n) ==
    <<[op |-> "volume", ins |-> <<Pad("in", n - 1)>>, out |-> Pad("voice", 0),
       zoomFrames |-> 0, transition |-> "none", duration |-> 0, offset |-> 0],
      [op |-> "volume_aloop", ins |-> <<Pad("in", n)>>, out |-> Pad("music", 0),
       zoomFrames |-> 0, transition |-> "none", duration |-> 0, offset |-> 0],
      [op |-> "amix", ins |-> <<Pad("voice", 0), Pad("music", 0)>>,
       out |-> Pad("outa", 0),
       zoomFrames |-> 0, transition |-> "none", duration |-> 0, offset |-> 0]>>
AudioFilter(n) ==
    <<[op |-> "volume", ins |-> <<Pad("in", n)>>, out |-> Pad("voice", 0),
       zoomFrames |-> 0, transition |-> "none", duration |-> 0, offset |-> 0],
      [op |-> "volume_aloop", ins |-> <<Pad("in", n + 1)>>, out |-> Pad("music", 0),
       zoomFrames |-> 0, transition |-> "none", duration |-> 0, offset |-> 0],
      [op |-> "amix", ins |-> <<Pad("voice", 0), Pad("music", 0)>>,
       out |-> Pad("outa", 0),
       zoomFrames |-> 0, transition |-> "none", duration |-> 0, offset |-> 0]>>

InputDecl(kind, name) == [kind |-> kind, name |-> name]

\* _create_video_simple / _create_video_with_music: the cmd list.
BuildCmd(imgs, voice, withMusic, d) ==
    LET n == Len(imgs) IN
    [holds |-> [k \in 1..n |-> d],
     inputs |-> [k \in 1..n |-> InputDecl("image", imgs[k])]
                \o <<InputDecl("audio", voice)>>
                \o (IF withMusic THEN <<InputDecl("music", "music")>> ELSE <<>>),
     filter |-> BuildImageFilter(n, d) \o (IF withMusic THEN AudioFilter(n) ELSE <<>>),
     maps |-> <<Pad("outv", 0), IF withMusic THEN Pad("outa", 0) ELSE Pad("in", n)>>]

\* ----------------------------------------------------- mix_audio_with_music
NarrContents == {"narrA", "narrB"}

\* shutil.copy2(src, dst)
Copy2Empty(f, src, dst) == [f EXCEPT ![dst] = "empty"]
Copy2(f, src, dst) == [f EXCEPT ![dst] = f[src]]

\* except Exception: copy the voiceover without music, return output_path.
MixFallback(f) == Copy2(f, "voiceover", "mixed")

\* voiceover_to_use chosen by _step_create_video after the mixing try/except.
VoiceoverToUseAlwaysMixed(raised) == "mixed"
VoiceoverToUse(raised) == IF raised THEN "voiceover" ELSE "mixed"

MixGuard == caller = "step" /\ stepPc = "start" /\ ~use_videos

\* The mixing try/except of the step: failure names what went wrong ("none" if
\* nothing did); raised says whether an exception reached the step.
FinishMix(newfs, failure, raised) ==
    /\ fs' = newfs
    /\ mixFailure' = failure
    /\ mixOutcome' = IF raised THEN "raised" ELSE "returned"
    /\ voiceover_to_use' = VoiceoverToUse(raised)
    /\ stepPc' = "mixed"
    /\ UNCHANGED <<sessionVars, image_durations, stepResult, stepError,
                   section_images, createVideoCalls, cvVars, ffVars>>

\* music file missing: copy the voiceover as-is.
MixMusicMissing ==
    /\ MixGuard
    /\ ~musicExists
    /\ UNCHANGED <<mixProbeCalls, mixEncoderCalls>>
    /\ FinishMix(Copy2(fs, "voiceover", "mixed"), "none", FALSE)

\* _get_audio_duration raises (ffprobe missing, non-zero exit, bad JSON).
MixProbeFails ==
    /\ MixGuard
    /\ musicExists
    /\ mixProbeCalls' = mixProbeCalls + 1
    /\ UNCHANGED mixEncoderCalls
    /\ FinishMix(MixFallback(fs), "probe", FALSE)

\* _mix_with_ducking: subprocess.run(check=True) raises; the encoder may have
\* started writing output_path.
MixEncoderFails ==
    /\ MixGuard
    /\ musicExists
    /\ mixProbeCalls' = mixProbeCalls + 1
    /\ mixEncoderCalls' = mixEncoderCalls + 1
    /\ \E left \in {"absent", "partial"} :
          FinishMix(MixFallback([fs EXCEPT !["mixed"] = left]), "encoder", FALSE)

\* the encoder exits 0; nothing checks that it wrote output_path.
MixSucceeds ==
    /\ MixGuard
    /\ musicExists
    /\ mixProbeCalls' = mixProbeCalls + 1
    /\ mixEncoderCalls' = mixEncoderCalls + 1
    /\ \E out \in {"mixed", "absent"} :
          FinishMix([fs EXCEPT !["mixed"] = out], "none", FALSE)

\* BackgroundMusicMixer(...) itself raises (mkdir of its directories fails):
\* caught by the try/except around the mixing in _step_create_video.
MixerConstructionFails ==
    /\ MixGuard
    /\ UNCHANGED <<mixProbeCalls, mixEncoderCalls>>
    /\ FinishMix(fs, "mixer", TRUE)

\* ------------------------------------------------------ _step_create_video
\* self.use_videos and session_data['videos']: _compile_video_clips probes
\* the voiceover, runs the encoder once and stats the output.
StepCompileVideoClips ==
    /\ caller = "step" /\ stepPc = "start" /\ use_videos
    /\ \E out \in {"video", "empty", "absent", "probe_failed", "encoder_failed"} :
          /\ fs' = [fs EXCEPT !["video"] =
                       CASE out = "probe_failed" -> @
                         [] out = "encoder_failed" -> "partial"
                         [] OTHER -> out]
          /\ stepResult' = IF out \in {"video", "empty"} THEN "true" ELSE "false"
          /\ stepError' = IF out \in {"video", "empty"} THEN "none" ELSE "Exception"
    /\ stepPc' = "returned"
    /\ UNCHANGED <<sessionVars, voiceover_to_use, image_durations, section_images,
                   createVideoCalls, mixVars, cvVars, ffVars>>

\* One call of _extract_section_durations on the session data; an exception
\* that its handler does not catch reaches the caller.
ExtractSectionDurations(onEscape) ==
    IF ExtractEscapes(script, images)
    THEN /\ stepPc' = onEscape
         /\ stepError' = ExtractException(script, images)
         /\ UNCHANGED <<image_durations, section_images>>
    ELSE /\ image_durations' \in ExtractResults(script, images)
         /\ section_images' = SectionImages(script, images)
         /\ stepPc' = "allocated"
         /\ UNCHANGED stepError

StepExtractSectionDurations ==
    /\ caller = "step" /\ stepPc = "mixed"
    /\ ExtractSectionDurations("returned")
    /\ stepResult' = IF ExtractEscapes(script, images) THEN "false" ELSE stepResult
    /\ UNCHANGED <<sessionVars, fs, voiceover_to_use, createVideoCalls, mixVars,
                   cvVars, ffVars>>

\* _extract_section_durations called on its own.
AllocatorCall ==
    /\ caller = "allocator" /\ stepPc = "mixed"
    /\ ExtractSectionDurations("raised")
    /\ UNCHANGED <<sessionVars, fs, voiceover_to_use, stepResult, createVideoCalls,
                   mixVars, cvVars, ffVars>>

\* Parameters of KidsVideoCreator.create_video, and the keywords the step passes.
CreateVideoParams ==
    {"images", "voiceover_path", "output_filename", "background_music", "title"}
StepCallKwargs ==
    {"images", "voiceover_path", "background_music", "output_filename", "title",
     "image_durations"}

\* creator.create_video(...): a keyword the signature lacks raises TypeError
\* before the body runs; "except Exception" of the step then returns False.
StepCallCreateVideo ==
    /\ caller = "step" /\ stepPc = "allocated"
    /\ createVideoCalls' = createVideoCalls + 1
    /\ IF StepCallKwargs \subseteq CreateVideoParams
       THEN /\ stepPc' = "in_create_video"
            /\ cvPc' = "entered"
            /\ cvVoiceover' = voiceover_to_use
            /\ UNCHANGED <<stepResult, stepError>>
       ELSE /\ stepPc' = "returned"
            /\ stepResult' = "false"
            /\ stepError' = "TypeError"
            /\ UNCHANGED <<cvPc, cvVoiceover>>
    /\ UNCHANGED <<sessionVars, fs, voiceover_to_use, image_durations,
                   section_images, mixVars, audio_duration, duration_per_image, cmd, cvError, probeOutcome,
                   ffVars>>

\* create_video returns to, or raises into, whoever called it.
ReturnToCaller(ok, err) ==
    IF caller = "step"
    THEN /\ stepPc' = "returned"
         /\ stepResult' = IF ok THEN "true" ELSE "false"
         /\ stepError' = err
         /\ UNCHANGED <<voiceover_to_use, image_durations, section_images,
                        createVideoCalls>>
    ELSE UNCHANGED stepVars

\* ------------------------------------------------------------ create_video
InputsValidWithoutExistenceCheck ==
    /\ images # <<>>
    /\ fs[cvVoiceover] # "absent"
    /\ background_music # "missing"
InputsValid ==
    /\ images # <<>>
    /\ fs[cvVoiceover] # "absent"
    /\ missingImage = 0
    /\ background_music # "missing"

\* "Validate inputs": the ValueErrors raised before anything is probed or run.
CvRejectInputs ==
    /\ cvPc = "entered"
    /\ ~InputsValid
    /\ cvPc' = "raised"
    /\ cvError' = "ValueError"
    /\ ReturnToCaller(FALSE, "ValueError")
    /\ UNCHANGED <<sessionVars, fs, mixVars, cvVoiceover, audio_duration,
                   duration_per_image, cmd, probeOutcome, ffVars>>

\* _get_audio_duration: the probed duration, or 180.0 on any exception.
ProbedDurationZeroOnFailure(ok) == IF ok THEN narration_duration ELSE 0
ProbedDuration(ok) == IF ok THEN narration_duration ELSE DefaultAudioDuration

\* "if audio_duration < 10: raise ValueError"
TooShortNever(dur) == FALSE
TooShort(dur) == dur < MinVoiceover

CvProbeDuration ==
    /\ cvPc = "entered"
    /\ InputsValid
    /\ \E ok \in BOOLEAN :
         /\ probeOutcome' = IF ok THEN "ok" ELSE "failed"
         /\ audio_duration' = ProbedDuration(ok)
         /\ IF TooShort(ProbedDuration(ok))
            THEN /\ cvPc' = "raised"
                 /\ cvError' = "ValueError"
                 /\ ReturnToCaller(FALSE, "ValueError")
            ELSE /\ cvPc' = "probed"
                 /\ UNCHANGED <<cvError, stepVars>>
    /\ UNCHANGED <<sessionVars, fs, mixVars, cvVoiceover, duration_per_image,
                   cmd, ffVars>>

\* duration_per_image, the command of _create_video_simple/_with_music, and the
\* entry into _run_ffmpeg(cmd).
CvBuildAndRun ==
    /\ cvPc = "probed"
    /\ duration_per_image' = audio_duration \div Len(images)
    /\ cmd' = BuildCmd(images, cvVoiceover, background_music = "present",
                       audio_duration \div Len(images))
    /\ cvPc' = "encoding"
    /\ ffPc' = "running"
    /\ max_retries' = DefaultMaxRetries
    /\ attempt' = 1
    /\ runs' = <<>>
    /\ sleeps' = <<>>
    /\ ffError' = "none"
    /\ UNCHANGED <<sessionVars, fs, stepVars, mixVars, cvVoiceover,
                   audio_duration, cvError, probeOutcome>>

\* "if not output_path.exists(): raise RuntimeError"
OutputVerified(content) == content # "absent"

CvVerifyOutput ==
    /\ cvPc = "encoding"
    /\ ffPc = "returned"
    /\ IF OutputVerified(fs["video"])
       THEN /\ cvPc' = "returned"
            /\ UNCHANGED cvError
            /\ ReturnToCaller(TRUE, "none")
       ELSE /\ cvPc' = "raised"
            /\ cvError' = "RuntimeError"
            /\ ReturnToCaller(FALSE, "RuntimeError")
    /\ UNCHANGED <<sessionVars, fs, mixVars, cvVoiceover, audio_duration,
                   duration_per_image, cmd, probeOutcome, ffVars>>

\* except CalledProcessError / except Exception: re-raised as RuntimeError.
CvEncodeFailed ==
    /\ cvPc = "encoding"
    /\ ffPc = "raised"
    /\ cvPc' = "raised"
    /\ cvError' = "RuntimeError"
    /\ ReturnToCaller(FALSE, "RuntimeError")
    /\ UNCHANGED <<sessionVars, fs, mixVars, cvVoiceover, audio_duration,
                   duration_per_image, cmd, probeOutcome, ffVars>>

\* ------------------------------------------------------------ specification
NarrationDurations == {9000, 60000, 90000}

Scripts ==
    {[present |-> TRUE, intro |-> i, body |-> b, outro |-> o] :
        i \in {0, 12000}, o \in {0, 12000},
        b \in UNION {[1..k -> SectionDurs] : k \in 0..MaxBody}}

IdleStep ==
    /\ voiceover_to_use = "unset" /\ image_durations = None
    /\ stepResult = "none" /\ stepError = "none" /\ createVideoCalls = 0
    /\ section_images = <<>>
    /\ mixProbeCalls = 0 /\ mixEncoderCalls = 0 /\ mixOutcome = "none"
    /\ mixFailure = "none"

IdleCreateVideo ==
    /\ audio_duration = 0 /\ duration_per_image = 0 /\ cmd = NoCmd
    /\ cvError = "none" /\ probeOutcome = "none"
    /\ ffPc = "idle" /\ max_retries = DefaultMaxRetries /\ attempt = 1
    /\ runs = <<>> /\ sleeps = <<>> /\ ffError = "none"

\* Step 5 of run(): steps 1-4 have stored a script, the images and a voiceover.
InitStep ==
    /\ caller = "step"
    /\ use_videos \in BOOLEAN
    /\ script \in Scripts
    /\ \E n \in 0..MaxImages : images = [k \in 1..n |-> k]
    /\ use_videos => images = <<>>
    /\ missingImage = 0
    /\ background_music = "none"
    /\ musicExists \in BOOLEAN
    /\ narration_duration \in NarrationDurations
    /\ \E c \in NarrContents :
         fs = [p \in Paths |-> IF p = "voiceover" THEN c ELSE "absent"]
    /\ stepPc = "start"
    /\ IdleStep
    /\ cvPc = "idle" /\ cvVoiceover = "unset"
    /\ IdleCreateVideo
    /\ IdleRun
    /\ IdleAlone

\* create_youtube_video(images, voiceover_path, output_filename, background_music)
InitDirect ==
    /\ caller = "direct"
    /\ use_videos = FALSE
    /\ script = NoScript
    /\ \E n \in 0..MaxImages :
         /\ images = [k \in 1..n |-> k]
         /\ missingImage \in 0..n
    /\ background_music \in {"none", "present", "missing"}
    /\ musicExists = FALSE
    /\ narration_duration \in NarrationDurations
    /\ \E c \in {"absent", "narrA"} :
         fs = [p \in Paths |-> IF p = "voiceover" THEN c ELSE "absent"]
    /\ stepPc = "idle"
    /\ IdleStep
    /\ cvPc = "entered" /\ cvVoiceover = "voiceover"
    /\ IdleCreateVideo
    /\ IdleRun
    /\ IdleAlone

Init == InitStep \/ InitDirect

Next ==
    \/ StepCompileVideoClips
    \/ MixMusicMissing
    \/ MixProbeFails
    \/ MixEncoderFails
    \/ MixSucceeds
    \/ MixerConstructionFails
    \/ StepExtractSectionDurations
    \/ StepCallCreateVideo
    \/ CvRejectInputs
    \/ CvProbeDuration
    \/ CvBuildAndRun
    \/ CvVerifyOutput
    \/ CvEncodeFailed
    \/ RunSucceeds
    \/ RunTimesOut
    \/ RunCalledProcessError
    \/ RunFileNotFound
    \/ RunOtherException

Spec == Init /\ [][Next]_vars

\* ------------------------------------------------------- run() and main()
StageOrder ==
    <<"topic", "script", "images", "voiceover", "video", "metadata", "upload">>

KeepLastNVideos == 3        \* self._cleanup_previous_data(keep_last_n_videos=3)

Min(a, b) == IF a < b THEN a ELSE b

File(dir, name) == [dir |-> dir, name |-> name]

\* Directories _cleanup_previous_data empties: output/audio/*.mp3, everything
\* in output/images, output/videos/clips/*.mp4.
CleanedDirs == {"audio", "images", "clips"}

\* Where the stages of invocation p write.  Pexels clips are always named
\* section_NNN.mp4; narrations and videos carry the invocation's timestamp.
AssetFile(p) ==
    IF args[p].use_videos THEN File("clips", "section_001") ELSE File("images", p)
VoiceoverFile(p, tts) ==
    IF tts = "gtts" THEN File("output", p) ELSE File("audio", p)
VideoFile(p) == File("videos", p)

OnDisk(f) == \E g \in disk : g.dir = f.dir /\ g.name = f.name

\* Writing a path replaces whatever was there.
WriteFile(d, f, p) ==
    {g \in d : ~(g.dir = f.dir /\ g.name = f.name)}
        \cup {[dir |-> f.dir, name |-> f.name, writer |-> p]}

PendingOfOthers(p) == UNION {pending[q] : q \in Procs \ {p}}

\* Files of other invocations hit by p while those still need them.
Clobber(p, hit) == {[by |-> p, path |-> f] : f \in hit \cap PendingOfOthers(p)}

\* "if not self._step_x(): return False" for steps 1..7, then "return True".
\* An exception that reaches run() is caught there and also returns False.
AfterStageIgnoringFailure(k, ok) ==
    IF k = Len(StageOrder) THEN "return_true" ELSE "continue"
AfterStage(k, ok) ==
    IF ~ok THEN "return_false"
    ELSE IF k = Len(StageOrder) THEN "return_true" ELSE "continue"

\* sys.exit(0 if success else 1)
ExitCode(success) == IF success THEN 0 ELSE 1

StageGuard(p, name) == runPc[p] = "stages" /\ StageOrder[runStage[p]] = name

\* The step returned ok (or did not): record it and go on or return.
FinishStage(p, ok) ==
    LET k == runStage[p]
        next == AfterStage(k, ok)
    IN /\ executed' = [executed EXCEPT ![p] =
                          Append(@, [stage |-> StageOrder[k], ok |-> ok])]
       /\ IF next = "continue"
          THEN /\ runStage' = [runStage EXCEPT ![p] = k + 1]
               /\ UNCHANGED <<runPc, runResult>>
          ELSE /\ runPc' = [runPc EXCEPT ![p] = "returned"]
               /\ runResult' = [runResult EXCEPT ![p] =
                                   IF next = "return_true" THEN "true" ELSE "false"]
               /\ UNCHANGED runStage
       /\ UNCHANGED <<args, exitCode, assemblyVars>>

\* _setup_logging and _cleanup_previous_data(keep_last_n_videos=3).
RunCleanup(p) ==
    /\ runPc[p] = "cleanup"
    /\ LET gone == {File(g.dir, g.name) : g \in {h \in disk : h.dir \in CleanedDirs}}
                      \cup {VideoFile(videos[i]) :
                               i \in (KeepLastNVideos + 1)..Len(videos)}
       IN /\ disk' = {g \in disk : g.dir \notin CleanedDirs}
          /\ videos' = SubSeq(videos, 1, Min(Len(videos), KeepLastNVideos))
          /\ clobbered' = clobbered \cup Clobber(p, gone)
    /\ runPc' = [runPc EXCEPT ![p] = "stages"]
    /\ UNCHANGED <<args, runStage, executed, runResult, exitCode, pending,
                   assemblyVars>>

StepSelectTopic(p) ==
    /\ StageGuard(p, "topic")
    /\ \E ok \in BOOLEAN : FinishStage(p, ok)
    /\ UNCHANGED <<disk, videos, pending, clobbered>>

StepGenerateScript(p) ==
    /\ StageGuard(p, "script")
    /\ \E ok \in BOOLEAN : FinishStage(p, ok)
    /\ UNCHANGED <<disk, videos, pending, clobbered>>

\* Step 3 stores the images under output/images, or with use_videos the
\* Pexels clips under output/videos/clips.
StepGenerateImages(p) ==
    /\ StageGuard(p, "images")
    /\ \E ok \in BOOLEAN :
         /\ FinishStage(p, ok)
         /\ IF ok
            THEN /\ disk' = WriteFile(disk, AssetFile(p), p)
                 /\ pending' = [pending EXCEPT ![p] = @ \cup {AssetFile(p)}]
                 /\ clobbered' = clobbered \cup Clobber(p, {AssetFile(p)})
            ELSE UNCHANGED <<disk, pending, clobbered>>
    /\ UNCHANGED videos

\* Step 4: ElevenLabs writes output/audio/voiceover_<ts>.mp3, the gTTS
\* fallback writes output/voiceover_<ts>.mp3.
StepGenerateVoiceover(p) ==
    /\ StageGuard(p, "voiceover")
    /\ \E ok \in BOOLEAN, tts \in {"elevenlabs", "gtts"} :
         /\ FinishStage(p, ok)
         /\ IF ok
            THEN /\ disk' = WriteFile(disk, VoiceoverFile(p, tts), p)
                 /\ pending' = [pending EXCEPT ![p] = @ \cup {VoiceoverFile(p, tts)}]
            ELSE UNCHANGED <<disk, pending>>
    /\ UNCHANGED <<videos, clobbered>>

\* Step 5 reads the assets and the narration.  It can return True only when
\* it compiles clips (use_videos) and its inputs are still there: the image
\* path always ends in the TypeError of StepCallCreateVideo.
StepCreateVideo(p) ==
    /\ StageGuard(p, "video")
    /\ LET canSucceed == args[p].use_videos /\ \A f \in pending[p] : OnDisk(f)
       IN \E ok \in (IF canSucceed THEN BOOLEAN ELSE {FALSE}) :
             /\ FinishStage(p, ok)
             /\ videos' = IF ok THEN <<p>> \o videos ELSE videos
             /\ pending' = [pending EXCEPT ![p] = IF ok THEN {VideoFile(p)} ELSE {}]
    /\ UNCHANGED <<disk, clobbered>>

StepGenerateMetadata(p) ==
    /\ StageGuard(p, "metadata")
    /\ \E ok \in BOOLEAN : FinishStage(p, ok)
    /\ UNCHANGED <<disk, videos, pending, clobbered>>

\* Step 7 reads session_data['video_path'].
StepUploadToYoutube(p) ==
    /\ StageGuard(p, "upload")
    /\ LET canSucceed == \E i \in 1..Len(videos) : videos[i] = p
       IN \E ok \in (IF canSucceed THEN BOOLEAN ELSE {FALSE}) : FinishStage(p, ok)
    /\ pending' = [pending EXCEPT ![p] = {}]
    /\ UNCHANGED <<disk, videos, clobbered>>

\* main(): sys.exit(0 if success else 1)
MainExit(p) ==
    /\ runPc[p] = "returned"
    /\ runPc' = [runPc EXCEPT ![p] = "exited"]
    /\ exitCode' = [exitCode EXCEPT ![p] = ExitCode(runResult[p] = "true")]
    /\ UNCHANGED <<args, runStage, executed, runResult, disk, videos, pending,
                   clobbered, assemblyVars>>

\* main() has parsed the arguments of each invocation and built its
\* orchestrator; output/videos holds up to keep_last_n_videos earlier videos.
InitRun ==
    /\ caller = "run"
    /\ use_videos = FALSE
    /\ script = NoScript
    /\ images = <<>>
    /\ missingImage = 0
    /\ background_music = "none"
    /\ musicExists = FALSE
    /\ narration_duration = 0
    /\ fs = [p \in Paths |-> "absent"]
    /\ stepPc = "idle"
    /\ IdleStep
    /\ cvPc = "idle" /\ cvVoiceover = "unset"
    /\ IdleCreateVideo
    /\ args \in [Procs -> [skip_upload : BOOLEAN, use_videos : BOOLEAN]]
    /\ runPc = [p \in Procs |-> "cleanup"]
    /\ runStage = [p \in Procs |-> 1]
    /\ executed = [p \in Procs |-> <<>>]
    /\ runResult = [p \in Procs |-> "none"]
    /\ exitCode = [p \in Procs |-> -1]
    /\ disk = {}
    /\ \E n \in 0..KeepLastNVideos : videos = [i \in 1..n |-> "old"]
    /\ pending = [p \in Procs |-> {}]
    /\ clobbered = {}
    /\ IdleAlone

RunNext ==
    \E p \in Procs :
        \/ RunCleanup(p)
        \/ StepSelectTopic(p)
        \/ StepGenerateScript(p)
        \/ StepGenerateImages(p)
        \/ StepGenerateVoiceover(p)
        \/ StepCreateVideo(p)
        \/ StepGenerateMetadata(p)
        \/ StepUploadToYoutube(p)
        \/ MainExit(p)

SpecRun == InitRun /\ [][RunNext]_vars

\* ----------------------------------------- _build_image_filter on its own
MaxFilterImages == 12     \* longest image list handed to the filter builder

\* duration_per_image values in ms, some of them not a whole number of frames
FilterDurations == {1999, 3333, 4250, 10000, 20000}

InitFilter ==
    /\ caller = "filter"
    /\ use_videos = FALSE
    /\ script = NoScript
    /\ \E n \in 1..MaxFilterImages : images = [k \in 1..n |-> k]
    /\ missingImage = 0
    /\ background_music = "none"
    /\ musicExists = FALSE
    /\ narration_duration = 0
    /\ fs = [p \in Paths |-> "absent"]
    /\ stepPc = "idle"
    /\ IdleStep
    /\ cvPc = "idle" /\ cvVoiceover = "unset"
    /\ audio_duration = 0 /\ cmd = NoCmd /\ cvError = "none"
    /\ probeOutcome = "none"
    /\ duration_per_image \in FilterDurations
    /\ ffPc = "idle" /\ max_retries = DefaultMaxRetries /\ attempt = 1
    /\ runs = <<>> /\ sleeps = <<>> /\ ffError = "none"
    /\ IdleRun
    /\ filter_complex = <<>>
    /\ upPc = "idle" /\ chunksLeft = 0 /\ retry = 0 /\ upErrors = 0
    /\ upDelays = <<>> /\ upError = "none"
    /\ upLast = [kind |-> "none", status |-> 0]

\* _build_image_filter(images, duration_per_image)
FilterBuild ==
    /\ caller = "filter"
    /\ filter_complex = <<>>
    /\ filter_complex' = BuildImageFilter(Len(images), duration_per_image)
    /\ UNCHANGED <<caller, use_videos, script, images, missingImage,
                   background_music, musicExists, narration_duration, runVars,
                   uploadVars, fs, stepVars, mixVars, cvVars, ffVars>>

SpecFilter == InitFilter /\ [][FilterBuild]_vars

\* --------------------------------- _extract_section_durations on its own
MaxAllocImages == 9     \* longest image list handed to the allocator
MaxAllocBody == 2       \* most body sections of a script handed to it

\* Section durations in whole seconds that divide by every count explored.
AllocSectionDurs == {126000, 252000}

AllocScripts ==
    {[present |-> TRUE, intro |-> i, body |-> b, outro |-> o] :
        i \in {0, NoDuration, 126000}, o \in {0, 126000},
        b \in UNION {[1..k -> AllocSectionDurs \cup {NoDuration}] :
                        k \in 0..MaxAllocBody}}

\* session_data as any of steps 2 and 3 may have left it.
InitAllocator ==
    /\ caller = "allocator"
    /\ use_videos = FALSE
    /\ script \in AllocScripts \cup {NoScript}
    /\ \E n \in 0..MaxAllocImages : images = [k \in 1..n |-> k]
    /\ missingImage = 0
    /\ background_music = "none"
    /\ musicExists = FALSE
    /\ narration_duration = 0
    /\ fs = [p \in Paths |-> "absent"]
    /\ stepPc = "mixed"
    /\ IdleStep
    /\ cvPc = "idle" /\ cvVoiceover = "unset"
    /\ IdleCreateVideo
    /\ IdleRun
    /\ IdleAlone

SpecAllocator == InitAllocator /\ [][AllocatorCall]_vars

\* ------------------------------------ _execute_resumable_upload on its own
MaxChunks == 3            \* chunks of the largest file uploaded

MAX_RETRIES == 10
RETRIABLE_STATUS_CODES == {500, 502, 503, 504}

\* statuses an HttpError of next_chunk may carry
StatusCodes == {400, 403} \cup RETRIABLE_STATUS_CODES

\* "if retry > self.MAX_RETRIES: raise RuntimeError"
ExceedsMaxRetriesOffByOne(r) == r >= MAX_RETRIES
ExceedsMaxRetries(r) == r > MAX_RETRIES

InitUpload ==
    /\ caller = "upload"
    /\ use_videos = FALSE
    /\ script = NoScript
    /\ images = <<>>
    /\ missingImage = 0
    /\ background_music = "none"
    /\ musicExists = FALSE
    /\ narration_duration = 0
    /\ fs = [p \in Paths |-> "absent"]
    /\ stepPc = "idle"
    /\ IdleStep
    /\ cvPc = "idle" /\ cvVoiceover = "unset"
    /\ IdleCreateVideo
    /\ IdleRun
    /\ filter_complex = <<>>
    /\ upPc = "uploading"
    /\ chunksLeft \in 1..MaxChunks
    /\ retry = 0
    /\ upErrors = 0
    /\ upDelays = <<>>
    /\ upError = "none"
    /\ upLast = [kind |-> "none", status |-> 0]

notUploadVars == <<caller, use_videos, script, images, missingImage,
                   background_music, musicExists, narration_duration, runVars,
                   filter_complex, fs, stepVars, mixVars, cvVars, ffVars>>

\* next_chunk() returned: the response is set once the last chunk is sent.
UploadChunk ==
    /\ upPc = "uploading"
    /\ chunksLeft' = chunksLeft - 1
    /\ upPc' = IF chunksLeft = 1 THEN "returned" ELSE "uploading"
    /\ upLast' = [kind |-> "chunk", status |-> 0]
    /\ UNCHANGED <<retry, upErrors, upDelays, upError, notUploadVars>>

\* The "if error is not None" block after an error was recorded.
RecordError(last) ==
    /\ retry' = retry + 1
    /\ upErrors' = upErrors + 1
    /\ upLast' = last
    /\ IF ExceedsMaxRetries(retry + 1)
       THEN /\ upPc' = "raised"
            /\ upError' = "RuntimeError"
            /\ upDelays' = upDelays
       ELSE /\ upPc' = "uploading"
            /\ upError' = "none"
            /\ upDelays' = Append(upDelays, [delay |-> Pow2(retry + 1),
                                             left |-> chunksLeft])
    /\ UNCHANGED <<chunksLeft, notUploadVars>>

\* next_chunk() raised HttpError
UploadHttpError ==
    /\ upPc = "uploading"
    /\ \E status \in StatusCodes :
         IF status \in RETRIABLE_STATUS_CODES
         THEN RecordError([kind |-> "HttpError", status |-> status])
         ELSE /\ upPc' = "raised"
              /\ upError' = "HttpError"
              /\ upLast' = [kind |-> "HttpError", status |-> status]
              /\ UNCHANGED <<chunksLeft, retry, upErrors, upDelays,
                             notUploadVars>>

\* next_chunk() raised any other Exception
UploadOtherException ==
    /\ upPc = "uploading"
    /\ RecordError([kind |-> "Exception", status |-> 0])

UploadNext == UploadChunk \/ UploadHttpError \/ UploadOtherException

SpecUpload == InitUpload /\ [][UploadNext]_vars

\* Every call of next_chunk returns or raises and every sleep ends, so the
\* loop takes its next step whenever it has one.
SpecUploadLive == SpecUpload /\ WF_vars(UploadNext)

\* ----------------------------------------------------------------- claims
AllTransient == \A i \in 1..Len(runs) : runs[i] = "transient"

\* C1: when every encoder run so far failed with a transient pattern,
\* _run_ffmpeg has made at most max_retries attempts, has raised exactly when
\* it has made max_retries of them, and has not returned.
C1_RetryCeiling ==
    (runs # <<>> /\ AllTransient) =>
        /\ Len(runs) <= max_retries
        /\ (ffPc = "raised" <=> Len(runs) = max_retries)
        /\ ffPc # "returned"

C1_Witness ==
    /\ AllTransient
    /\ max_retries = DefaultMaxRetries
    /\ Len(runs) = DefaultMaxRetries
    /\ ffPc = "raised"

\* C2: an attempt that timed out is the last attempt: _run_ffmpeg has raised
\* RuntimeError, no backoff sleep followed the timeout and no attempt did,
\* whatever the ceiling and the number of the attempt.
C2_TimeoutNotRetried ==
    \A i \in 1..Len(runs) :
        runs[i] = "timeout" =>
            /\ i = Len(runs)
            /\ ffPc = "raised"
            /\ ffError = "RuntimeError"
            /\ Len(sleeps) = Len(runs) - 1

C2_Witness ==
    /\ Len(runs) = 2
    /\ runs[1] = "transient"
    /\ runs[2] = "timeout"
    /\ max_retries = DefaultMaxRetries
    /\ ffPc = "raised"

\* C3: an attempt that failed with anything but a timeout or a transient
\* pattern (non-transient exit, missing executable, any other error) is the
\* last attempt: _run_ffmpeg has raised and no backoff sleep followed it.
C3_FatalNeverRetried ==
    \A i \in 1..Len(runs) :
        runs[i] \in {"nontransient", "notfound", "other"} =>
            /\ i = Len(runs)
            /\ ffPc = "raised"
            /\ Len(sleeps) = Len(runs) - 1

\* C4: create_video returns the output path only if the file exists and is
\* not empty.
C4_OutputExistsNonEmpty ==
    cvPc = "returned" => fs["video"] \notin {"absent", "empty"}

\* C5: the durations the allocator hands to the step, and the hold times of
\* an encoder command, sum to the narration duration within 1 ms.
C5_SumInvariant ==
    /\ (caller = "step" /\ stepPc \in {"allocated", "in_create_video", "returned"}
          /\ ~image_durations.none)
         => Abs(SumSeq(image_durations.list) - narration_duration) <= 1
    /\ cmd # NoCmd => Abs(SumSeq(cmd.holds) - audio_duration) <= 1

\* C6: the xfade offset of junction i is the sum of the hold times of assets
\* 0..i-1 minus the fade duration.
C6_XfadeOffsetsCumulative ==
    cmd # NoCmd =>
        \A i \in 1..Len(Xfades(cmd.filter)) :
            Xfades(cmd.filter)[i].offset =
                SumSeq(SubSeq(cmd.holds, 1, i)) - FADE_DURATION

EqualSplit == [k \in 1..Len(images) |-> audio_duration \div Len(images)]

\* C7: when the allocator returned None for a non-empty image list, the step
\* ends either with the video made from the equal split or with a failure
\* raised inside create_video (validation, encoder); the call itself does not
\* fail.
C7_EqualSplitFallback ==
    (caller = "step" /\ ~use_videos /\ stepPc = "returned" /\ image_durations.none
       /\ images # <<>>) =>
        \/ stepResult = "true" /\ cmd.holds = EqualSplit
        \/ stepResult = "false" /\ cvError # "none"

\* C8: when the allocator returned a list, the step ends with an encoder
\* command whose hold times are that list, unless create_video rejected its
\* inputs before building one.
C8_AllocatedDurationsUsed ==
    (caller = "step" /\ ~use_videos /\ stepPc = "returned" /\ ~image_durations.none) =>
        IF cmd = NoCmd THEN cvError = "ValueError"
        ELSE cmd.holds = image_durations.list

MixingDone == caller = "step" /\ ~use_videos /\ stepPc # "start"

C11_ProbeFallback ==
    probeOutcome = "failed" =>
        /\ audio_duration = DefaultAudioDuration
        /\ cvPc \in {"probed", "encoding", "returned", "raised"}
        /\ cvPc # "probed" =>
              /\ cmd # NoCmd
              /\ \A k \in 1..Len(cmd.holds) :
                    cmd.holds[k] = DefaultAudioDuration \div Len(images)
        /\ cvPc \in {"returned", "raised"} => runs # <<>>

C11_Witness ==
    /\ probeOutcome = "failed"
    /\ narration_duration = 60000
    /\ audio_duration = DefaultAudioDuration
    /\ cvPc = "returned"
    /\ runs # <<>>

\* C12: create_video called with an empty image list or with an image file
\* that does not exist has raised ValueError without probing the narration,
\* building a command or running the encoder; and whenever the encoder has
\* been run for create_video the image list is non-empty, every image file
\* exists and the hold times of the command sum to a positive duration.
C12_FailFastValidation ==
    /\ (cvPc \notin {"idle", "entered"} /\ (images = <<>> \/ missingImage # 0)) =>
          /\ cvPc = "raised"
          /\ cvError = "ValueError"
          /\ probeOutcome = "none"
          /\ cmd = NoCmd
          /\ runs = <<>>
    /\ (cvPc # "idle" /\ runs # <<>>) =>
          /\ images # <<>>
          /\ missingImage = 0
          /\ cmd # NoCmd
          /\ SumSeq(cmd.holds) > 0

C12_Witness ==
    /\ cvPc = "raised"
    /\ Len(images) >= 2
    /\ missingImage = 2
    /\ fs["voiceover"] # "absent"
    /\ background_music = "none"
    /\ probeOutcome = "none"
    /\ runs = <<>>

Failed(p) == \E i \in 1..Len(executed[p]) : ~executed[p][i].ok
Succeeded(p, name) ==
    \E i \in 1..Len(executed[p]) : executed[p][i] = [stage |-> name, ok |-> TRUE]
Attempted(p, name) ==
    \E i \in 1..Len(executed[p]) : executed[p][i].stage = name

\* C13: in every invocation the stages called so far are the first ones of
\* topic, script, images, voiceover, video, metadata, upload in that order; a
\* stage that failed is the last one called and run() has returned False,
\* after which the process exits with a non-zero code; the upload stage is
\* called only after video creation and metadata generation succeeded.
C13_FailureStopsRun ==
    \A p \in Procs :
        /\ Len(executed[p]) <= Len(StageOrder)
        /\ \A i \in 1..Len(executed[p]) : executed[p][i].stage = StageOrder[i]
        /\ \A i \in 1..(Len(executed[p]) - 1) : executed[p][i].ok
        /\ Failed(p) =>
              /\ runPc[p] \in {"returned", "exited"}
              /\ runResult[p] = "false"
              /\ runPc[p] = "exited" => exitCode[p] # 0
        /\ Attempted(p, "upload") =>
              Succeeded(p, "video") /\ Succeeded(p, "metadata")

C13_Witness ==
    \E p \in Procs :
        /\ Len(executed[p]) = 5
        /\ executed[p][5] = [stage |-> "video", ok |-> FALSE]
        /\ runPc[p] = "exited"
        /\ exitCode[p] = 1

\* C14: no invocation deletes or overwrites a file that the other invocation
\* has produced and has not consumed yet.
C14_InvocationsIsolated == clobbered = {}

\* C15: an invocation started with --skip-upload never calls the upload
\* step, and when its run() has returned True the last step it called is
\* metadata generation.
C15_SkipUpload ==
    \A p \in Procs :
        args[p].skip_upload =>
            /\ ~Attempted(p, "upload")
            /\ runResult[p] = "true" =>
                  executed[p][Len(executed[p])].stage = "metadata"

\* C16: an encode job goes back to running only after a transient failure
\* and its backoff, so every attempt but the last failed with a transient
\* pattern; an attempt that succeeded, timed out or failed otherwise ended the
\* job (returned or raised); the job has raised after a transient failure
\* only when the ceiling is reached; and neither the attempt counter nor the
\* number of runs exceeds the ceiling.
C16_EncodeJobStateMachine ==
    /\ \A i \in 1..(Len(runs) - 1) : runs[i] = "transient"
    /\ Len(sleeps) = Len(runs) - (IF ffPc = "running" THEN 0 ELSE 1)
    /\ (runs # <<>> /\ runs[Len(runs)] # "transient") => ffPc \in {"returned", "raised"}
    /\ ffPc = "returned" => runs # <<>> /\ runs[Len(runs)] = "ok"
    /\ (ffPc = "raised" /\ runs[Len(runs)] = "transient") => Len(runs) = max_retries
    /\ attempt <= max_retries
    /\ Len(runs) <= max_retries

\* sections of a script in the order intro, body sections, outro
AllSections(s) ==
    (IF s.intro # 0 THEN <<s.intro>> ELSE <<>>) \o s.body
        \o (IF s.outro # 0 THEN <<s.outro>> ELSE <<>>)

\* C17: when the script has as many sections (intro, body sections, outro) as
\* there are images, the allocator returned one duration per image, the i-th
\* being the duration of section i rescaled by narration duration over the
\* sum of the section durations, within 1 ms.
C17_OneToOne ==
    (caller = "step" /\ ~use_videos /\ stepPc \in {"allocated", "returned"}
       /\ images # <<>> /\ Len(AllSections(script)) = Len(images)) =>
        LET secs == AllSections(script) IN
        /\ ~image_durations.none
        /\ Len(image_durations.list) = Len(images)
        /\ \A i \in 1..Len(images) :
              Abs(image_durations.list[i] * SumSeq(secs)
                    - secs[i] * narration_duration) <= SumSeq(secs)

\* the allocator was called with more images than sections, at least one
Oversupplied ==
    /\ caller = "allocator" /\ stepPc # "mixed"
    /\ script.present /\ ~ExtractRaises(script)
    /\ Len(SectionDurations(script)) >= 1
    /\ Len(images) > Len(SectionDurations(script))

ImagesBefore(j) == SumSeq(SubSeq(section_images, 1, j - 1))

C20_FailureIsAValue ==
    (caller = "allocator" /\ stepPc # "mixed") =>
        /\ stepPc = "allocated"
        /\ stepError = "none"
        /\ (\/ ~script.present
            \/ images = <<>>
            \/ ExtractException(script, images) # "none"
            \/ Len(images) < Len(SectionDurations(script))) => image_durations = None

C20_Witness ==
    /\ caller = "allocator"
    /\ stepPc = "allocated"
    /\ script.present
    /\ script.intro = 126000
    /\ script.body = <<252000, NoDuration>>
    /\ script.outro = 0
    /\ Len(images) = 3
    /\ image_durations = None

\* C21: the k-th attempt, when it failed with a transient pattern and was not
\* the last allowed one, was followed by a sleep of 2^k seconds (twice
\* 2^(k-1)) before attempt k+1; every sleep taken is the k-th sleep of 2^k
\* seconds; and no sleep followed the last allowed attempt or a success.
C21_ExponentialBackoff ==
    /\ \A k \in 1..Len(runs) :
          (runs[k] = "transient" /\ k < max_retries) =>
              /\ Len(sleeps) >= k
              /\ sleeps[k] = Pow2(k)
              /\ sleeps[k] >= 2 * Pow2(k - 1)
    /\ \A k \in 1..Len(sleeps) : sleeps[k] = Pow2(k)
    /\ Len(sleeps) <= max_retries - 1
    /\ Len(sleeps) <= Len(runs)
    /\ \A k \in 1..Len(runs) : runs[k] = "ok" => Len(sleeps) = k - 1

C21_Witness ==
    /\ max_retries = DefaultMaxRetries
    /\ runs = <<"transient", "transient", "transient">>
    /\ sleeps = <<2, 4>>
    /\ ffPc = "raised"

FilterBuilt == caller = "filter" /\ filter_complex # <<>>
CountOp(f, op) == Len(SelectSeq(f, LAMBDA x : x.op = op))

\* C22: for N >= 1 images the graph has exactly N processing fragments and
\* N-1 xfade fragments; for one image it has no xfade and, after the
\* processing fragment, a copy of [v0] to [outv]; for more images no copy.
C22_TransitionCount ==
    FilterBuilt =>
        LET n == Len(images) IN
        /\ CountOp(filter_complex, "process") = n
        /\ CountOp(filter_complex, "xfade") = n - 1
        /\ Len(filter_complex) = n + (IF n = 1 THEN 1 ELSE n - 1)
        /\ n = 1 =>
              /\ filter_complex[2].op = "copy"
              /\ filter_complex[2].ins = <<Pad("v", 0)>>
              /\ filter_complex[2].out = Pad("outv", 0)
        /\ n > 1 => CountOp(filter_complex, "copy") = 0

C22_Witness ==
    /\ FilterBuilt
    /\ Len(images) = 1
    /\ Len(filter_complex) = 2
    /\ filter_complex[2].op = "copy"

\* C23 as stated: junction i uses an effect other than the plain fade when i
\* is divisible by 3, and the plain fade otherwise.
C23_EveryThirdSpecial ==
    FilterBuilt =>
        \A i \in 1..(Len(images) - 1) :
            IF i % 3 = 0
            THEN Xfades(filter_complex)[i].transition # "fade"
            ELSE Xfades(filter_complex)[i].transition = "fade"

\* C24: the zoompan d of every processing fragment is the whole number of
\* frames in the image's display duration (duration times the frame rate,
\* truncated), and not the duration in seconds.
C24_ZoomInFrames ==
    FilterBuilt =>
        \A k \in 1..Len(images) :
            /\ filter_complex[k].op = "process"
            /\ filter_complex[k].zoomFrames * 1000 <= duration_per_image * OUTPUT_FPS
            /\ (filter_complex[k].zoomFrames + 1) * 1000 > duration_per_image * OUTPUT_FPS
            /\ filter_complex[k].zoomFrames # duration_per_image \div 1000

C24_Witness ==
    /\ FilterBuilt
    /\ duration_per_image = 3333
    /\ Len(images) = 2
    /\ filter_complex[1].zoomFrames = 199
    /\ filter_complex[2].zoomFrames = 199

\* C25: in the command of create_video the k-th input is the k-th image of
\* the list, there are as many image inputs as images, the k-th processing
\* fragment reads input k-1 and writes [v(k-1)], and junction i joins the
\* chain built so far ([v0] or the output of junction i-1) with [vi].
C25_AssetOrderPreserved ==
    cmd # NoCmd =>
        LET n == Len(images)
            xf == Xfades(cmd.filter)
        IN /\ Len(SelectSeq(cmd.inputs, LAMBDA x : x.kind = "image")) = n
           /\ \A k \in 1..n :
                /\ cmd.inputs[k] = InputDecl("image", images[k])
                /\ cmd.filter[k].op = "process"
                /\ cmd.filter[k].ins = <<Pad("in", k - 1)>>
                /\ cmd.filter[k].out = Pad("v", k - 1)
           /\ Len(xf) = n - 1
           /\ \A i \in 1..(n - 1) :
                /\ xf[i].ins[2] = Pad("v", i)
                /\ xf[i].ins[1] = IF i = 1 THEN Pad("v", 0) ELSE xf[i - 1].out

C25_Witness ==
    /\ cmd # NoCmd
    /\ Len(images) = 3
    /\ cmd.inputs[3] = InputDecl("image", 3)
    /\ Xfades(cmd.filter)[2].ins = <<Pad("vt", 1), Pad("v", 2)>>
    /\ cvPc = "returned"

\* C26: when create_video has ended with an error after building its
\* command (encoder failure, retries exhausted, timeout, output missing),
\* there is no file at the output path.
C26_NoPartialOutput ==
    (cvPc = "raised" /\ cmd # NoCmd) => fs["video"] = "absent"

\* pads a fragment reads that are labels, not input streams
LabelsRead(x) == {x.ins[j] : j \in {m \in 1..Len(x.ins) : x.ins[m].name # "in"}}
Producers(f, pad) == {j \in 1..Len(f) : f[j].out = pad}
Consumers(f, pad) ==
    {<<k, j>> \in (1..Len(f)) \X (1..2) : j <= Len(f[k].ins) /\ f[k].ins[j] = pad}

\* C27: in the graph every label a fragment reads is written by exactly one
\* fragment, an earlier one; every label written, except [outv], is read
\* exactly once; [outv] is written exactly once and never read.
C27_PadsWellFormed ==
    FilterBuilt =>
        LET f == filter_complex IN
        /\ \A k \in 1..Len(f) : \A pad \in LabelsRead(f[k]) :
              /\ Cardinality(Producers(f, pad)) = 1
              /\ \A j \in Producers(f, pad) : j < k
        /\ \A k \in 1..Len(f) :
              f[k].out # Pad("outv", 0) => Cardinality(Consumers(f, f[k].out)) = 1
        /\ Cardinality(Producers(f, Pad("outv", 0))) = 1
        /\ Consumers(f, Pad("outv", 0)) = {}

C27_Witness ==
    /\ FilterBuilt
    /\ Len(images) = 4
    /\ filter_complex[6].ins = <<Pad("vt", 1), Pad("v", 2)>>
    /\ filter_complex[7].out = Pad("outv", 0)

\* C28: in the command of create_video for N images, input N (counted from
\* 0) is the voiceover; without music it is the last input and the audio
\* mapped is stream N; with music the music is input N+1, the audio fragments
\* take the voice from input N and the music from input N+1 and mix exactly
\* these two into [outa], which is the audio mapped.
C28_AudioStreamIndices ==
    cmd # NoCmd =>
        LET n == Len(images)
            audio == SelectSeq(cmd.filter, LAMBDA x : x.op \notin {"process", "xfade", "copy"})
        IN /\ cmd.inputs[n + 1] = InputDecl("audio", cvVoiceover)
           /\ cmd.maps[1] = Pad("outv", 0)
           /\ IF background_music = "present"
              THEN /\ Len(cmd.inputs) = n + 2
                   /\ cmd.inputs[n + 2].kind = "music"
                   /\ Len(audio) = 3
                   /\ audio[1].ins = <<Pad("in", n)>> /\ audio[1].out = Pad("voice", 0)
                   /\ audio[2].ins = <<Pad("in", n + 1)>> /\ audio[2].out = Pad("music", 0)
                   /\ audio[3].op = "amix"
                   /\ audio[3].ins = <<Pad("voice", 0), Pad("music", 0)>>
                   /\ audio[3].out = Pad("outa", 0)
                   /\ cmd.maps[2] = Pad("outa", 0)
              ELSE /\ Len(cmd.inputs) = n + 1
                   /\ audio = <<>>
                   /\ cmd.maps[2] = Pad("in", n)
                   /\ cmd.inputs[cmd.maps[2].idx + 1].kind = "audio"

C28_Witness ==
    /\ cmd # NoCmd
    /\ background_music = "present"
    /\ Len(images) = 2
    /\ cmd.inputs[3].kind = "audio"
    /\ cmd.inputs[4].kind = "music"
    /\ cmd.maps[2] = Pad("outa", 0)

\* C29: when the probe succeeded and reported less than 10 s, create_video
\* raised ValueError without building a command or running the encoder;
\* whenever the encoder has been run the duration in use is at least 10 s;
\* and when the probe failed the 180 s default is in use and create_video
\* did not stop before building its command.
C29_MinimumNarration ==
    /\ (probeOutcome = "ok" /\ narration_duration < MinVoiceover) =>
          /\ cvPc = "raised"
          /\ cvError = "ValueError"
          /\ cmd = NoCmd
          /\ runs = <<>>
    /\ (cvPc # "idle" /\ runs # <<>>) => audio_duration >= MinVoiceover
    /\ probeOutcome = "failed" =>
          /\ audio_duration = DefaultAudioDuration
          /\ ~(cvPc = "raised" /\ cmd = NoCmd)

C29_Witness ==
    /\ probeOutcome = "ok"
    /\ narration_duration = 9000
    /\ cvPc = "raised"
    /\ cvError = "ValueError"
    /\ runs = <<>>

UploadEnded == upPc \in {"returned", "raised"}

\* the error counter equals the number of errors seen since the call began,
\* the r-th delay is 2^r, RuntimeError is raised on error MAX_RETRIES + 1 and
\* on no other, and a non-retriable HttpError leaves at once
UploadRetryDiscipline ==
    caller = "upload" =>
        /\ retry = upErrors
        /\ upErrors <= MAX_RETRIES + 1
        /\ Len(upDelays) = Min(upErrors, MAX_RETRIES)
        /\ \A r \in 1..Len(upDelays) : upDelays[r].delay = Pow2(r)
        /\ (upPc = "raised" /\ upError = "RuntimeError") <=> upErrors = MAX_RETRIES + 1
        /\ upPc \in {"uploading", "returned"} => upErrors <= MAX_RETRIES
        /\ upPc = "returned" <=> chunksLeft = 0
        /\ (upLast.kind = "HttpError" /\ upLast.status \notin RETRIABLE_STATUS_CODES)
              <=> (upPc = "raised" /\ upError = "HttpError")
        /\ upError = "HttpError" => Len(upDelays) = upErrors
        /\ (upLast.kind = "Exception"
              \/ (upLast.kind = "HttpError" /\ upLast.status \in RETRIABLE_STATUS_CODES))
              => /\ upErrors >= 1
                 /\ upError # "HttpError"
                 /\ upErrors <= MAX_RETRIES => upPc = "uploading"

\* C30: the upload loop always ends, by returning or raising; a non-retriable
\* HttpError leaves it at once; retriable statuses and other exceptions are
\* retried after a delay of 2^r before retry r; the error counter is never
\* reset by a successful chunk; RuntimeError is raised on the
\* (MAX_RETRIES + 1)-th error, so at most MAX_RETRIES errors are tolerated.
C30_UploadTerminates ==
    /\ []UploadRetryDiscipline
    /\ <>UploadEnded

C30_Witness ==
    /\ caller = "upload"
    /\ upPc = "raised"
    /\ upError = "RuntimeError"
    /\ upErrors = MAX_RETRIES + 1
    /\ Len(upDelays) = MAX_RETRIES
    /\ upDelays[MAX_RETRIES].delay = 1024
    /\ upDelays[MAX_RETRIES].left < upDelays[1].left

====
